---- MODULE Spec2Model ----
(***************************************************************************)
(* A model of ireason's graph pipeline (src/src/ireason/data_generator.py): *)
(* DataGenerator._generate_structure_graph, _select_categories,            *)
(* _assign_names, _generate_abstract_parameter_graph, _generate_G_d_nece1, *)
(* _calculate_op and _get_node_dependencies.                               *)
(*                                                                         *)
(* Strings built by f-strings are modelled by the values they are built    *)
(* from, so that two strings are equal exactly when the tuples are:        *)
(*   f"Layer{l}_Node{j}"                      <<l, j>>                      *)
(*   f"{category} {k}"                        <<category, k>>   (Fmt)       *)
(*   a catalog literal such as "Tech Park"    <<"Tech Park", 0>> (Lit)      *)
(*   f"{english_name}'s {category}"           <<english_name, category>>   *)
(*   f"Abstract_{node}_Layer{k}_{english}"    a record (AbstractKey)       *)
(* networkx graphs keep nodes, adjacency and predecessors in insertion     *)
(* order, so a graph is a record of a node sequence, an attribute function *)
(* and an edge sequence.                                                   *)
(***************************************************************************)
EXTENDS Integers, Sequences, FiniteSets, TLC

\* ------------------------------------------------------------------ bounds
\* largest max_items_per_layer a configuration of Spec draws
MaxItems == 2
\* largest num_layers a run of Spec uses (any positive number is taken)
MaxLayers == 3
\* largest num_layers of a run of SpecInvalid whose min_items_per_layer is
\* above MaxItems
MaxInvalidLayers == 2
\* a num_layers above the length of every categorization, which
\* _select_categories cannot serve
DeepLayers == 5
\* the least min_items_per_layer, max_items_per_layer and num_layers of a run
\* of SpecInvalid is -MaxNegative
MaxNegative == 1
\* the shuffles of a name pool a run may draw: the number of draws that place
\* an item (the items after them keep their order), and the number of values
\* of a draw
MaxShuffleDraws == 1
MaxShuffles == 2

\* number of entries of hierarchical_categories a run may draw from
MaxCategorizations == 2

\* the largest budget n of a call of _generate_G_d_nece1
MaxBudget == 8
\* the inputs of the extraction runs: the most nodes of a structure graph, and
\* the most edges lines 208-216 add to it
NeceNodes == 5
NeceExtra == 1
\* the wide input of the extraction runs: the sizes of its two layers, the
\* number of edges lines 208-216 add to it, and the number of nodes of the
\* first layer line 203 draws the parents from
WideTop == 3
WideBottom == 4
WideExtra == 4
WideParents == 1
WideCategorizations == 1
WideStart == 0
\* the size of the layers of the naming runs, above the size of every pool
NamesLayer == 102
\* the most repetitions of the loop of _generate_G_d_nece1 a call is followed
\* for
MaxSweeps == 20
\* the largest number of nodes of a graph handed to _calculate_op on its own
MaxOpNodes == 3
\* the addition runs: the most digits of a term, the most terms of an
\* example, the largest num_examples, the number of seeds, and the most
\* digits of a "generate_all" data set
MaxDigits == 2
MaxTerms == 3
MaxExamples == 10
MaxSeeds == 1
MaxAllDigits == 1
\* the numbers the random module hands out in an addition run: they repeat
\* after TapeLen draws, and each is below MaxDraw
TapeLen == 2
MaxDraw == 4

\* ------------------------------------------------------- program constants
\* random.randint(2, 4) when num_layers is None
MinRandomLayers == 2
MaxRandomLayers == 4
\* range(100): the size of the generated name pools
PoolSize == 100

\* ------------------------------------------------------------- sequences
Range(s) == {s[i] : i \in 1..Len(s)}

RECURSIVE SumSeq(_)
SumSeq(s) == IF s = <<>> THEN 0 ELSE s[1] + SumSeq(Tail(s))

Max2(a, b) == IF a >= b THEN a ELSE b

\* ----------------------------------------------------------------- graphs
\* nx.Graph() / nx.DiGraph()
EmptyGraph == [nodes |-> <<>>, attr |-> <<>>, edges |-> <<>>]

HasNode(G, k) == k \in Range(G.nodes)

\* dict.update: the new attributes override, the others stay
MergeAttrs(old, new) == new @@ old

\* Graph.add_node(k, **attrs)
AddNode(G, k, attrs) ==
    IF HasNode(G, k)
    THEN [G EXCEPT !.attr = (k :> MergeAttrs(G.attr[k], attrs)) @@ G.attr]
    ELSE [G EXCEPT !.nodes = Append(G.nodes, k),
                   !.attr = (k :> attrs) @@ G.attr]

\* Graph.has_edge(u, v) of the undirected structure graph
HasEdge(G, u, v) == <<u, v>> \in Range(G.edges) \/ <<v, u>> \in Range(G.edges)

\* DiGraph.has_edge(u, v)
HasArc(G, u, v) == <<u, v>> \in Range(G.edges)

\* Graph.add_edge(u, v), both endpoints present
AddEdge(G, u, v) ==
    IF HasEdge(G, u, v) THEN G ELSE [G EXCEPT !.edges = Append(G.edges, <<u, v>>)]

\* add_edge(u, v) of a graph built as nx.Graph(): the edge runs both ways
AddArcBothWays(G, u, v) ==
    IF <<u, v>> \in Range(G.edges) THEN G
    ELSE [G EXCEPT !.edges = Append(Append(G.edges, <<u, v>>), <<v, u>>)]

\* DiGraph.add_edge(u, v), both endpoints present
AddArc(G, u, v) ==
    IF HasArc(G, u, v) THEN G ELSE [G EXCEPT !.edges = Append(G.edges, <<u, v>>)]

\* DiGraph.copy(): the nodes in their order, then the edges source by source
\* in the order of the nodes, each source's edges in their order
RECURSIVE OutEdges(_, _)
OutEdges(es, u) ==
    IF es = <<>> THEN <<>>
    ELSE IF es[1][1] = u THEN <<es[1]>> \o OutEdges(Tail(es), u)
    ELSE OutEdges(Tail(es), u)
RECURSIVE CopyEdges(_, _)
CopyEdges(es, nodes) ==
    IF nodes = <<>> THEN <<>>
    ELSE OutEdges(es, nodes[1]) \o CopyEdges(es, Tail(nodes))
Copy(G) == [G EXCEPT !.edges = CopyEdges(G.edges, G.nodes)]

\* Graph.number_of_edges()
NumberOfEdges(G) == Len(G.edges)

\* Graph.neighbors(v): adjacency in insertion order
RECURSIVE NeighborsOf(_, _)
NeighborsOf(es, v) ==
    IF es = <<>> THEN <<>>
    ELSE LET e == es[1] IN
         IF e[1] = v THEN <<e[2]>> \o NeighborsOf(Tail(es), v)
         ELSE IF e[2] = v THEN <<e[1]>> \o NeighborsOf(Tail(es), v)
         ELSE NeighborsOf(Tail(es), v)
Neighbors(G, v) == NeighborsOf(G.edges, v)

\* DiGraph.predecessors(v): in insertion order
RECURSIVE PredecessorsOf(_, _)
PredecessorsOf(es, v) ==
    IF es = <<>> THEN <<>>
    ELSE IF es[1][2] = v THEN <<es[1][1]>> \o PredecessorsOf(Tail(es), v)
    ELSE PredecessorsOf(Tail(es), v)
Predecessors(G, v) == PredecessorsOf(G.edges, v)

\* DiGraph.in_degree(v)
InDegree(G, v) == Len(Predecessors(G, v))

\* ------------------------------------------------------------------ names
Lit(s) == <<s, 0>>
Fmt(category, k) == <<category, k>>

\* f"Layer{i + 1}_Node{j + 1}"
NodeId(l, j) == <<l, j>>

\* DataGenerator._initialize_categories: the four categorizations
hierarchical_categories ==
    << <<"District", "Supermarket", "Product", "Ingredient">>,
       <<"Zoo", "Enclosure", "Animal", "Bone">>,
       <<"School", "Classroom", "Backpack", "Stationery">>,
       <<"Ecosystems", "Creatures", "Organs", "Cells">> >>

DistrictItems ==
    << Lit("Shopping District"), Lit("Business District"), Lit("Financial District"),
       Lit("Industrial District"), Lit("Warehouse District"), Lit("Market District"),
       Lit("Restaurant District"), Lit("Entertainment District"), Lit("Arts District"),
       Lit("Fashion District"), Lit("Silicon Valley"), Lit("Wall Street"),
       Lit("Tech Park"), Lit("Automotive District"), Lit("Jewelry District"),
       Lit("Medical District"), Lit("Legal District"), Lit("Media District"),
       Lit("Research Park"), Lit("Manufacturing District") >>

ProductItems ==
    << Lit("Potato Chips"), Lit("Pretzels"), Lit("Popcorn"), Lit("Candy Bars"),
       Lit("Gummy Candy"), Lit("Cookies"), Lit("Crackers"), Lit("Granola Bars"),
       Lit("Fruit Snacks"), Lit("Cheese Puffs"), Lit("Nuts"), Lit("Trail Mix"),
       Lit("Beef Jerky"), Lit("Rice Cakes"), Lit("Yogurt Covered Raisins"),
       Lit("Chocolate Covered Pretzels"), Lit("Tortilla Chips"), Lit("Salsa"),
       Lit("Hummus"), Lit("Dried Fruit") >>

\* The item lists of _assign_names (lines 261-267): the catalog's, with its
\* subcategories flattened, or [f"{category} {j + 1}" for j in range(100)].
\* len(items)
ItemCount(category) ==
    CASE category = "District" -> Len(DistrictItems)
      [] category = "Product" -> Len(ProductItems)
      [] OTHER -> PoolSize

\* items[i] before the shuffle (0-indexed)
ItemAt(category, i) ==
    CASE category = "District" -> DistrictItems[i + 1]
      [] category = "Product" -> ProductItems[i + 1]
      [] category = "Supermarket" -> Fmt("Supermarket", i + 1)
      [] category = "Ingredient" -> Fmt("Spice", i + 1)
      [] OTHER -> Fmt(category, i + 1)

\* random.shuffle (line 270) on the positions of a list: draws[k] picks, among
\* the positions not placed yet, the one that comes k-th; the positions left
\* when the draws are used up follow in their order.  Every permutation is
\* the outcome of some draws.
RECURSIVE ShuffleOf(_, _)
ShuffleOf(positions, draws) ==
    IF draws = <<>> \/ positions = <<>> THEN positions
    ELSE LET j == (draws[1] % Len(positions)) + 1 IN
         <<positions[j]>>
         \o ShuffleOf(SubSeq(positions, 1, j - 1)
                          \o SubSeq(positions, j + 1, Len(positions)),
                      Tail(draws))

\* the draws of the shuffles a run makes
Shuffles == [1..MaxShuffleDraws -> 0..(MaxShuffles - 1)]

\* items[i] after random.shuffle(items) (line 270), r being the draws of the
\* shuffle
ShuffledAt(category, r, i) ==
    ItemAt(category,
           ShuffleOf([k \in 1..ItemCount(category) |-> k - 1], r)[i + 1])

\* lines 275-280: the first item at or after item_index that is not used
RECURSIVE NextUnused(_, _, _, _)
NextUnused(category, r, item_index, used_names) ==
    IF item_index < ItemCount(category)
    THEN IF ShuffledAt(category, r, item_index) \notin used_names
         THEN [found |-> TRUE, name |-> ShuffledAt(category, r, item_index),
               item_index |-> item_index + 1]
         ELSE NextUnused(category, r, item_index + 1, used_names)
    ELSE [found |-> FALSE, name |-> Lit(""), item_index |-> item_index]

\* lines 275-284 with line 283 as f"{category} {len(used_names)}"
NameNodeOffByOne(category, r, item_index, used_names) ==
    LET u == NextUnused(category, r, item_index, used_names) IN
    IF u.found
    THEN [name |-> u.name, item_index |-> u.item_index,
          used_names |-> used_names \cup {u.name}]
    ELSE LET synth == Fmt(category, Cardinality(used_names)) IN
         [name |-> synth, item_index |-> u.item_index,
          used_names |-> used_names \cup {synth}]

\* lines 275-284, the while/else of one node: the name it gets, and the
\* item_index and used_names it leaves
NameNode(category, r, item_index, used_names) ==
    LET u == NextUnused(category, r, item_index, used_names) IN
    IF u.found
    THEN [name |-> u.name, item_index |-> u.item_index,
          used_names |-> used_names \cup {u.name}]
    ELSE LET synth == Fmt(category, Cardinality(used_names) + 1) IN
         [name |-> synth, item_index |-> u.item_index,
          used_names |-> used_names \cup {synth}]

\* lines 273-287: the names of one layer of the given size, in node order
RECURSIVE NameLayerFrom(_, _, _, _, _)
NameLayerFrom(category, r, item_index, used_names, todo) ==
    IF todo = 0 THEN <<>>
    ELSE LET u == NameNode(category, r, item_index, used_names) IN
         <<u.name>> \o NameLayerFrom(category, r, u.item_index, u.used_names, todo - 1)

NameLayer(category, r, size) == NameLayerFrom(category, r, 0, {}, size)

\* ------------------------------------------------------------------ state
VARIABLES
    pc,               \* where the run is
    cfg,              \* the arguments of _generate_structure_graph
    num_layers,       \* line 139
    num_edges,        \* line 146
    layer_sizes,      \* line 149
    layers,           \* line 184
    categories,       \* line 192
    structure_graph,  \* line 189
    li,               \* the layer of the connectivity loop, line 201 (1-indexed)
    ni,               \* the node of the connectivity loop, line 202 (1-indexed)
    total_edges,      \* line 207
    G_a,              \* line 301
    shuffled,         \* line 270: the shuffle drawn for each layer being named
    item_index,       \* line 271
    used_names,       \* line 257
    n,                \* the budget of the running call of _generate_G_d_nece1
    G_d_nece1,        \* line 400
    updated,          \* line 402
    max_difficulty,   \* line 406
    curr_difficulty,  \* line 413
    returned,         \* the subgraphs returned so far, for the budgets 0, 1, ...
    sweeps,           \* how often the running call has entered the loop of line 403
    op_graph,         \* the argument graph of a call of _calculate_op, line 448
    op_value,         \* what the call returned, line 450
    config,           \* AdditionDataGenerator.config
    random_state,     \* the state of the random module
    training_data,    \* generate_data, line 27
    training_data_clean, \* line 31
    moved_examples,   \* line 31
    test_data,        \* line 40
    datasets          \* what generate_data returns, line 45

\* the variables of a call of _calculate_op on its own
op_vars == <<op_graph, op_value>>

\* the variables of the calls made outside _generate_structure_graph,
\* _assign_names and _generate_G_d_nece1
\* the variables of AdditionDataGenerator.generate_data
add_vars == <<config, random_state, training_data, training_data_clean, moved_examples,
              test_data, datasets>>

other_vars == <<op_vars, add_vars>>

vars == <<pc, cfg, num_layers, num_edges, layer_sizes, layers, categories,
          structure_graph, li, ni, total_edges, G_a,
          shuffled, item_index, used_names,
          n, G_d_nece1, updated, max_difficulty, curr_difficulty, returned,
          sweeps, other_vars>>

\* the variables of _generate_structure_graph and of the dependency graph
\* the variables of the per-node run of _assign_names
name_vars == <<shuffled, item_index, used_names>>

structure_vars == <<cfg, name_vars, num_layers, num_edges, layer_sizes, layers,
                    categories, structure_graph, li, ni, total_edges, G_a>>

\* the variables of _generate_G_d_nece1
nece_vars == <<n, G_d_nece1, updated, max_difficulty, curr_difficulty, returned,
               sweeps>>


\* an Optional[int]: None, or the number given
None == <<>>
Some(k) == <<k>>

\* -------------------------------------------------- _generate_structure_graph
\* e^- = l_2 + l_3 + ... + l_d (line 157)
CurrentMinEdges(sizes) == IF sizes = <<>> THEN 0 ELSE SumSeq(Tail(sizes))

\* e^+ = l_1*l_2 + l_2*l_3 + ... (lines 158-160)
CurrentMaxEdges(sizes) ==
    SumSeq([i \in 1..(Len(sizes) - 1) |-> sizes[i] * sizes[i + 1]])

\* [max_items_per_layer] * num_layers
AllAt(size, count) == [i \in 1..count |-> size]

\* indices of lines 164-166 and 172-174 (1-indexed)
GrowIndices(sizes, max_items) == {i \in 1..Len(sizes) : sizes[i] < max_items}

\* the valid configurations Spec draws
Configs ==
    [min_items_per_layer : 1..MaxItems, max_items_per_layer : 1..MaxItems,
     num_layers : {None} \cup {Some(l) : l \in (1..MaxLayers) \cup {DeepLayers}}]
ValidConfig(c) ==
    /\ 1 <= c.min_items_per_layer
    /\ c.min_items_per_layer <= c.max_items_per_layer

Blank ==
    /\ num_layers = 0
    /\ num_edges = 0
    /\ layer_sizes = <<>>
    /\ layers = <<>>
    /\ categories = <<>>
    /\ structure_graph = EmptyGraph
    /\ li = 0
    /\ ni = 0
    /\ total_edges = 0
    /\ G_a = EmptyGraph
    /\ shuffled = <<>>
    /\ item_index = 0
    /\ used_names = {}

\* no call of _calculate_op on its own
OpBlank ==
    /\ op_graph = EmptyGraph
    /\ op_value = None

\* no AdditionDataGenerator
AddBlank ==
    /\ config = <<>>
    /\ random_state = <<>>
    /\ training_data = <<>>
    /\ training_data_clean = <<>>
    /\ moved_examples = <<>>
    /\ test_data = <<>>
    /\ datasets = <<>>

OtherBlank ==
    /\ OpBlank
    /\ AddBlank

NeceBlank ==
    /\ n = 0
    /\ G_d_nece1 = EmptyGraph
    /\ updated = FALSE
    /\ max_difficulty = 0
    /\ curr_difficulty = 0
    /\ returned = <<>>
    /\ sweeps = 0

Init ==
    /\ pc = "start"
    /\ cfg \in {c \in Configs : ValidConfig(c)}
    /\ Blank
    /\ NeceBlank
    /\ OtherBlank

\* lines 138-139: the number of layers a call may run with
LayerCounts(arg) ==
    IF arg = None
    THEN MinRandomLayers..(IF MaxLayers < MaxRandomLayers
                           THEN MaxLayers ELSE MaxRandomLayers)
    ELSE {arg[1]}

\* lines 138-151 with line 146 as random.randint(min_edges, max_edges + 1)
BeginOneMore ==
    /\ pc = "start"
    /\ \E l \in LayerCounts(cfg.num_layers) :
         LET min_edges == (l - 1) * cfg.min_items_per_layer
             max_edges == (l - 1) * cfg.max_items_per_layer * cfg.max_items_per_layer
         IN  /\ min_edges <= max_edges + 1
             /\ num_layers' = l
             /\ \E e \in min_edges..(max_edges + 1) : num_edges' = e
             /\ layer_sizes' = AllAt(cfg.min_items_per_layer, l)
    /\ pc' = "grow"
    /\ UNCHANGED <<cfg, name_vars, other_vars, layers, categories, structure_graph, li, ni, total_edges, G_a, nece_vars>>

\* lines 138-151
Begin ==
    /\ pc = "start"
    /\ \E l \in LayerCounts(cfg.num_layers) :
         LET min_edges == (l - 1) * cfg.min_items_per_layer
             max_edges == (l - 1) * cfg.max_items_per_layer * cfg.max_items_per_layer
         IN  /\ min_edges <= max_edges
             /\ num_layers' = l
             /\ \E e \in min_edges..max_edges : num_edges' = e
             /\ layer_sizes' = AllAt(cfg.min_items_per_layer, l)
    /\ pc' = "grow"
    /\ UNCHANGED <<cfg, name_vars, other_vars, layers, categories, structure_graph, li, ni, total_edges, G_a, nece_vars>>

InLoop ==
    /\ pc = "grow"
    /\ layer_sizes # AllAt(cfg.max_items_per_layer, num_layers)

\* lines 162-168: the edge target is out of reach, a layer must grow
GrowForced ==
    /\ InLoop
    /\ CurrentMaxEdges(layer_sizes) < num_edges
    /\ \E i \in GrowIndices(layer_sizes, cfg.max_items_per_layer) :
         layer_sizes' = [layer_sizes EXCEPT ![i] = @ + 1]
    /\ UNCHANGED <<pc, cfg, name_vars, other_vars, num_layers, num_edges, layers, categories,
                   structure_graph, li, ni, total_edges, G_a, nece_vars>>

\* lines 162-167: the edge target is out of reach and no layer is below
\* max_items_per_layer; random.choice of the empty list raises IndexError
GrowRaises ==
    /\ InLoop
    /\ CurrentMaxEdges(layer_sizes) < num_edges
    /\ GrowIndices(layer_sizes, cfg.max_items_per_layer) = {}
    /\ pc' = "raised"
    /\ UNCHANGED <<cfg, name_vars, other_vars, num_layers, num_edges, layer_sizes, layers, categories,
                   structure_graph, li, ni, total_edges, G_a, nece_vars>>

\* lines 169-170
StopExact ==
    /\ InLoop
    /\ ~(CurrentMaxEdges(layer_sizes) < num_edges)
    /\ CurrentMinEdges(layer_sizes) = num_edges
    /\ pc' = "build"
    /\ UNCHANGED <<cfg, name_vars, other_vars, num_layers, num_edges, layer_sizes, layers, categories,
                   structure_graph, li, ni, total_edges, G_a, nece_vars>>

\* lines 171-177 without the test of lines 169-170 before them: a layer may
\* grow although current_min_edges has reached num_edges
GrowRandomPastExact ==
    /\ InLoop
    /\ ~(CurrentMaxEdges(layer_sizes) < num_edges)
    /\ \E i \in GrowIndices(layer_sizes, cfg.max_items_per_layer) :
         layer_sizes' = [layer_sizes EXCEPT ![i] = @ + 1]
    /\ UNCHANGED <<pc, cfg, name_vars, other_vars, num_layers, num_edges, layers, categories,
                   structure_graph, li, ni, total_edges, G_a, nece_vars>>

\* lines 171-177: random.uniform(0, 1) < probability, and a layer can grow
GrowRandom ==
    /\ InLoop
    /\ ~(CurrentMaxEdges(layer_sizes) < num_edges)
    /\ CurrentMinEdges(layer_sizes) # num_edges
    /\ \E i \in GrowIndices(layer_sizes, cfg.max_items_per_layer) :
         layer_sizes' = [layer_sizes EXCEPT ![i] = @ + 1]
    /\ UNCHANGED <<pc, cfg, name_vars, other_vars, num_layers, num_edges, layers, categories,
                   structure_graph, li, ni, total_edges, G_a, nece_vars>>

\* lines 180-181: random.uniform(0, 1) >= probability
StopRandom ==
    /\ InLoop
    /\ ~(CurrentMaxEdges(layer_sizes) < num_edges)
    /\ CurrentMinEdges(layer_sizes) # num_edges
    /\ pc' = "build"
    /\ UNCHANGED <<cfg, name_vars, other_vars, num_layers, num_edges, layer_sizes, layers, categories,
                   structure_graph, li, ni, total_edges, G_a, nece_vars>>

\* line 155: the loop condition fails
StopFull ==
    /\ pc = "grow"
    /\ layer_sizes = AllAt(cfg.max_items_per_layer, num_layers)
    /\ pc' = "build"
    /\ UNCHANGED <<cfg, name_vars, other_vars, num_layers, num_edges, layer_sizes, layers, categories,
                   structure_graph, li, ni, total_edges, G_a, nece_vars>>

\* lines 184-187 as "for j in range(layer_sizes[i] + 1)": one node too many
MakeLayersOneMore(sizes) ==
    [i \in 1..Len(sizes) |-> [j \in 1..(sizes[i] + 1) |-> NodeId(i, j)]]

\* lines 184-187
MakeLayers(sizes) == [i \in 1..Len(sizes) |-> [j \in 1..sizes[i] |-> NodeId(i, j)]]

\* seq[start:stop]: an index below 0 counts from the end, and both are cut
\* to the sequence
SliceIndex(seq, k) ==
    IF k < 0 THEN Max2(k + Len(seq), 0)
    ELSE IF k > Len(seq) THEN Len(seq) ELSE k
Slice(seq, start, stop) ==
    IF SliceIndex(seq, start) < SliceIndex(seq, stop)
    THEN SubSeq(seq, SliceIndex(seq, start) + 1, SliceIndex(seq, stop))
    ELSE <<>>

\* _select_categories, lines 231-238: categorization c, start_index s
SelectCategories(c, s, count) ==
    Slice(hierarchical_categories[c], s, s + count)

\* lines 194-198: structure_graph.add_node(node, layer=..., category=...)
RECURSIVE AddLayerNodes(_, _, _, _)
AddLayerNodes(G, nodes, layer_number, category) ==
    IF nodes = <<>> THEN G
    ELSE AddLayerNodes(
             AddNode(G, nodes[1], [layer |-> layer_number, category |-> category]),
             Tail(nodes), layer_number, category)

RECURSIVE AddAllNodes(_, _, _, _)
AddAllNodes(G, lys, cats, i) ==
    IF i > Len(lys) THEN G
    ELSE AddAllNodes(AddLayerNodes(G, lys[i], i, cats[i]), lys, cats, i + 1)

\* lines 184-198; with one layer the loop of lines 201-204 has nothing to do
\* and line 207 follows
Build ==
    /\ pc = "build"
    /\ layers' = MakeLayers(layer_sizes)
    /\ \E c \in 1..MaxCategorizations :
         /\ Len(hierarchical_categories[c]) - num_layers >= 0
         /\ \E s \in 0..(Len(hierarchical_categories[c]) - num_layers) :
              categories' = SelectCategories(c, s, num_layers)
    /\ structure_graph' = AddAllNodes(EmptyGraph, layers', categories', 1)
    /\ li' = 2
    /\ ni' = 1
    /\ IF num_layers < 2
       THEN /\ pc' = "extra"
            /\ total_edges' = NumberOfEdges(structure_graph')
       ELSE /\ pc' = "connect"
            /\ total_edges' = total_edges
    /\ UNCHANGED <<cfg, name_vars, other_vars, num_layers, num_edges, layer_sizes, G_a, nece_vars>>

\* line 192: _select_categories draws a categorization shorter than
\* num_layers, and random.randint(0, max_start_index) of line 235 raises
\* ValueError
BuildRaises ==
    /\ pc = "build"
    /\ \E c \in 1..MaxCategorizations :
         Len(hierarchical_categories[c]) - num_layers < 0
    /\ pc' = "raised"
    /\ UNCHANGED <<cfg, name_vars, other_vars, num_layers, num_edges, layer_sizes, layers, categories,
                   structure_graph, li, ni, total_edges, G_a, nece_vars>>

\* lines 201-204 as "for node in layers[i][1:]": the first node of a layer gets
\* no parent
ConnectSkipsFirst ==
    /\ pc = "connect"
    /\ li <= num_layers
    /\ ni <= Len(layers[li])
    /\ \E p \in 1..Len(layers[li - 1]) :
         structure_graph' =
             IF ni = 1 THEN structure_graph
             ELSE AddEdge(structure_graph, layers[li][ni], layers[li - 1][p])
    /\ IF ni < Len(layers[li])
       THEN /\ ni' = ni + 1
            /\ li' = li
            /\ pc' = pc
            /\ total_edges' = total_edges
       ELSE IF li < num_layers
       THEN /\ ni' = 1
            /\ li' = li + 1
            /\ pc' = pc
            /\ total_edges' = total_edges
       ELSE /\ ni' = ni
            /\ li' = li
            /\ pc' = "extra"
            /\ total_edges' = NumberOfEdges(structure_graph')
    /\ UNCHANGED <<cfg, name_vars, other_vars, num_layers, num_edges, layer_sizes, layers, categories, G_a, nece_vars>>

\* lines 201-204, one node of one layer; line 207 follows the last one
Connect ==
    /\ pc = "connect"
    /\ li <= num_layers
    /\ ni <= Len(layers[li])
    /\ \E p \in 1..Len(layers[li - 1]) :
         structure_graph' = AddEdge(structure_graph, layers[li][ni], layers[li - 1][p])
    /\ IF ni < Len(layers[li])
       THEN /\ ni' = ni + 1
            /\ li' = li
            /\ pc' = pc
            /\ total_edges' = total_edges
       ELSE IF li < num_layers
       THEN /\ ni' = 1
            /\ li' = li + 1
            /\ pc' = pc
            /\ total_edges' = total_edges
       ELSE /\ ni' = ni
            /\ li' = li
            /\ pc' = "extra"
            /\ total_edges' = NumberOfEdges(structure_graph')
    /\ UNCHANGED <<cfg, name_vars, other_vars, num_layers, num_edges, layer_sizes, layers, categories, G_a, nece_vars>>

\* lines 208-216 as "node_b = random.choice(layers[i])": both ends are drawn
\* from the same layer
ExtraEdgeSameLayer ==
    /\ pc = "extra"
    /\ total_edges < num_edges
    /\ \E i \in 1..(num_layers - 1) :
       \E a \in 1..Len(layers[i]) :
       \E b \in 1..Len(layers[i]) :
         LET node_a == layers[i][a]
             node_b == layers[i][b]
         IN  IF ~HasEdge(structure_graph, node_a, node_b)
             THEN /\ structure_graph' = AddEdge(structure_graph, node_a, node_b)
                  /\ total_edges' = total_edges + 1
             ELSE UNCHANGED <<structure_graph, total_edges>>
    /\ UNCHANGED <<pc, cfg, name_vars, other_vars, num_layers, num_edges, layer_sizes, layers, categories,
                   li, ni, G_a, nece_vars>>

\* lines 208-216, one iteration
ExtraEdge ==
    /\ pc = "extra"
    /\ total_edges < num_edges
    /\ \E i \in 1..(num_layers - 1) :
       \E a \in 1..Len(layers[i]) :
       \E b \in 1..Len(layers[i + 1]) :
         LET node_a == layers[i][a]
             node_b == layers[i + 1][b]
         IN  IF ~HasEdge(structure_graph, node_a, node_b)
             THEN /\ structure_graph' = AddEdge(structure_graph, node_a, node_b)
                  /\ total_edges' = total_edges + 1
             ELSE UNCHANGED <<structure_graph, total_edges>>
    /\ UNCHANGED <<pc, cfg, name_vars, other_vars, num_layers, num_edges, layer_sizes, layers, categories,
                   li, ni, G_a, nece_vars>>

\* _assign_names, lines 273-287 for one layer: the english_name of each node
RECURSIVE SetNames(_, _, _)
SetNames(G, nodes, names) ==
    IF nodes = <<>> THEN G
    ELSE SetNames(AddNode(G, nodes[1], [english_name |-> names[1]]),
                  Tail(nodes), Tail(names))

\* _assign_names, lines 254-287: shuffle[i] is the shuffle drawn for layer i
RECURSIVE AssignNames(_, _, _, _)
AssignNames(G, lys, shuffle, i) ==
    IF i > Len(lys) THEN G
    ELSE LET category == G.attr[lys[i][1]].category
             names == NameLayer(category, shuffle[i], Len(lys[i]))
         IN  AssignNames(SetNames(G, lys[i], names), lys, shuffle, i + 1)

\* line 208 fails, then lines 219-221; line 256 reads the first node of
\* every layer
Return ==
    /\ pc = "extra"
    /\ ~(total_edges < num_edges)
    /\ \A i \in 1..num_layers : layers[i] # <<>>
    /\ \E shuffle \in [1..num_layers -> Shuffles] :
         structure_graph' = AssignNames(structure_graph, layers, shuffle, 1)
    /\ pc' = "structure_done"
    /\ UNCHANGED <<cfg, name_vars, other_vars, num_layers, num_edges, layer_sizes, layers, categories,
                   li, ni, total_edges, G_a, nece_vars>>

\* ---------------- _generate_structure_graph outside 1 <= min <= max
\* line 146: random.randint(min_edges, max_edges) of an empty range raises
\* ValueError
BeginRaises ==
    /\ pc = "start"
    /\ \E l \in LayerCounts(cfg.num_layers) :
         (l - 1) * cfg.min_items_per_layer
             > (l - 1) * cfg.max_items_per_layer * cfg.max_items_per_layer
    /\ pc' = "raised"
    /\ UNCHANGED <<cfg, name_vars, other_vars, num_layers, num_edges, layer_sizes, layers, categories,
                   structure_graph, li, ni, total_edges, G_a, nece_vars>>

\* lines 171-179: random.uniform(0, 1) < probability and no layer is below
\* max_items_per_layer
StopNoIndex ==
    /\ InLoop
    /\ ~(CurrentMaxEdges(layer_sizes) < num_edges)
    /\ CurrentMinEdges(layer_sizes) # num_edges
    /\ GrowIndices(layer_sizes, cfg.max_items_per_layer) = {}
    /\ pc' = "build"
    /\ UNCHANGED <<cfg, name_vars, other_vars, num_layers, num_edges, layer_sizes, layers, categories,
                   structure_graph, li, ni, total_edges, G_a, nece_vars>>

\* lines 201-202: a layer without nodes, the inner loop does nothing
ConnectSkip ==
    /\ pc = "connect"
    /\ li <= num_layers
    /\ layers[li] = <<>>
    /\ IF li < num_layers
       THEN /\ li' = li + 1
            /\ pc' = pc
            /\ total_edges' = total_edges
       ELSE /\ li' = li
            /\ pc' = "extra"
            /\ total_edges' = NumberOfEdges(structure_graph)
    /\ UNCHANGED <<cfg, name_vars, other_vars, num_layers, num_edges, layer_sizes, layers,
                   categories, structure_graph, ni, G_a, nece_vars>>

\* line 203: random.choice of a layer without nodes raises IndexError
ConnectRaises ==
    /\ pc = "connect"
    /\ li <= num_layers
    /\ ni <= Len(layers[li])
    /\ layers[li - 1] = <<>>
    /\ pc' = "raised"
    /\ UNCHANGED <<cfg, name_vars, other_vars, num_layers, num_edges, layer_sizes, layers, categories,
                   structure_graph, li, ni, total_edges, G_a, nece_vars>>

\* lines 209-213: random.choice of a layer without nodes raises IndexError
ExtraRaises ==
    /\ pc = "extra"
    /\ total_edges < num_edges
    /\ \E i \in 1..(num_layers - 1) : layers[i] = <<>> \/ layers[i + 1] = <<>>
    /\ pc' = "raised"
    /\ UNCHANGED <<cfg, name_vars, other_vars, num_layers, num_edges, layer_sizes, layers, categories,
                   structure_graph, li, ni, total_edges, G_a, nece_vars>>

\* line 256: layer_nodes[0] of a layer without nodes raises IndexError
NamesRaises ==
    /\ pc = "extra"
    /\ ~(total_edges < num_edges)
    /\ \E i \in 1..num_layers : layers[i] = <<>>
    /\ pc' = "raised"
    /\ UNCHANGED <<cfg, name_vars, other_vars, num_layers, num_edges, layer_sizes, layers, categories,
                   structure_graph, li, ni, total_edges, G_a, nece_vars>>

\* the configurations outside the positive integers with min <= max
\* (a minimum above MaxItems is run with 1 to MaxInvalidLayers layers)
InvalidConfigs ==
    {c \in [min_items_per_layer : (-MaxNegative)..(MaxItems + 1),
            max_items_per_layer : (-MaxNegative)..MaxItems,
            num_layers : {None} \cup {Some(l) : l \in ((-MaxNegative)..MaxLayers)
                                                     \cup {DeepLayers}}] :
        /\ ~ValidConfig(c) \/ (c.num_layers # None /\ c.num_layers[1] < 1)
        /\ c.min_items_per_layer > MaxItems
               => c.num_layers \in {Some(l) : l \in 1..MaxInvalidLayers}}

InitInvalid ==
    /\ pc = "start"
    /\ cfg \in InvalidConfigs
    /\ Blank
    /\ NeceBlank
    /\ OtherBlank

NextInvalid ==
    \/ Begin
    \/ BeginRaises
    \/ GrowForced
    \/ GrowRaises
    \/ StopExact
    \/ GrowRandom
    \/ StopRandom
    \/ StopNoIndex
    \/ StopFull
    \/ Build
    \/ BuildRaises
    \/ Connect
    \/ ConnectSkip
    \/ ConnectRaises
    \/ ExtraEdge
    \/ ExtraRaises
    \/ Return
    \/ NamesRaises

SpecInvalid == InitInvalid /\ [][NextInvalid]_vars

\* ------------------------------------------ _generate_abstract_parameter_graph
\* The node names of G_a: a structure node's own name, or
\* f"Abstract_{node}_Layer{layer}_{english_name}".
RawKey(node) ==
    [kind |-> "Node", node |-> node, layer |-> 0, english_name |-> <<Lit(""), "">>]
AbstractKey(node, layer, english_name) ==
    [kind |-> "Abstract", node |-> node, layer |-> layer, english_name |-> english_name]

\* f"{english_name}'s {category}"
Possessive(english_name, category) == <<english_name, category>>

\* dict.get(name, default)
Get(attrs, name, default) == IF name \in DOMAIN attrs THEN attrs[name] ELSE default

\* lines 314-318: the neighbours of node in the layer below (layer is 1-indexed)
RECURSIVE KeepLayer(_, _, _)
KeepLayer(G, ns, layer) ==
    IF ns = <<>> THEN <<>>
    ELSE IF G.attr[ns[1]].layer = layer
         THEN <<ns[1]>> \o KeepLayer(G, Tail(ns), layer)
         ELSE KeepLayer(G, Tail(ns), layer)
\* line 317 as '["layer"] == i + 1': the node's own layer
LowerNeighborsOwnLayer(G, node, layer) == KeepLayer(G, Neighbors(G, node), layer)
LowerNeighbors(G, node, layer) == KeepLayer(G, Neighbors(G, node), layer + 1)

\* line 375 as "difficulty_level=associated_difficulty"
ComposedDifficultyFlat(associated_difficulty) == associated_difficulty

\* line 375: difficulty_level=1 + associated_difficulty
ComposedDifficulty(associated_difficulty) == 1 + associated_difficulty

\* lines 356-380: one composed parameter of node per abstract parameter of nei
RECURSIVE Compose(_, _, _, _, _)
Compose(ga, sg, node, layer, aa_nodes) ==
    IF aa_nodes = <<>> THEN ga
    ELSE LET aa_node == aa_nodes[1]
             associated_attributes == ga.attr[aa_node]
             associated_difficulty == associated_attributes.difficulty_level
             associated_category == associated_attributes.category
             associated_english_name ==
                 Possessive(sg.attr[node].english_name, associated_category)
             associated_param_name ==
                 AbstractKey(node, (layer - 1) + associated_difficulty,
                             associated_english_name)
             added == AddNode(ga, associated_param_name,
                          [difficulty_level |->
                              ComposedDifficulty(associated_difficulty),
                           category |-> associated_category,
                           english_name |-> associated_english_name,
                           layers |-> <<layer, layer + associated_difficulty>>,
                           node |-> node])
         IN  Compose(AddArc(added, aa_node, associated_param_name),
                     sg, node, layer, Tail(aa_nodes))

\* lines 347-380: the loop over the neighbours of node
RECURSIVE LinkNeighbors(_, _, _, _, _, _)
LinkNeighbors(ga, sg, node, layer, param_name, neighbors) ==
    IF neighbors = <<>> THEN ga
    ELSE LET nei == neighbors[1]
             node_attributes == sg.attr[nei]
             with_nei == AddArc(AddNode(ga, RawKey(nei), node_attributes),
                                RawKey(nei), param_name)
         IN  LinkNeighbors(
                 Compose(with_nei, sg, node, layer,
                         Get(node_attributes, "abstract_nodes", <<>>)),
                 sg, node, layer, param_name, Tail(neighbors))

\* lines 310-380: the body of "for node in higher_layer_nodes"; s is the pair
\* of the structure graph and G_a, and lys the layers
VisitNode(s, lys, layer, node) ==
    LET neighbors == LowerNeighbors(s.sg, node, layer) IN
    IF neighbors = <<>> THEN s
    ELSE LET lower_layer_category == s.sg.attr[lys[layer + 1][1]].category
             english_name ==
                 Possessive(s.sg.attr[node].english_name, lower_layer_category)
             param_name == AbstractKey(node, layer, english_name)
             ga1 == AddNode(s.ga, param_name,
                        [difficulty_level |-> 1,
                         category |-> lower_layer_category,
                         english_name |-> english_name,
                         layers |-> <<layer, layer + 1>>,
                         node |-> node])
             sg1 == AddNode(s.sg, node,
                        [abstract_nodes |->
                            Get(s.sg.attr[node], "abstract_nodes", <<>>)
                                \o <<param_name>>])
         IN  [sg |-> sg1,
              ga |-> LinkNeighbors(ga1, sg1, node, layer, param_name, neighbors)]

RECURSIVE VisitLayer(_, _, _, _)
VisitLayer(s, lys, layer, nodes) ==
    IF nodes = <<>> THEN s
    ELSE VisitLayer(VisitNode(s, lys, layer, nodes[1]), lys, layer, Tail(nodes))

\* line 307: for i in range(num_layers - 2, -1, -1), layer = i + 1
RECURSIVE VisitLayers(_, _, _)
VisitLayers(s, lys, layer) ==
    IF layer < 1 THEN s
    ELSE VisitLayers(VisitLayer(s, lys, layer, lys[layer]), lys, layer - 1)

\* _generate_abstract_parameter_graph(structure_graph, layers): G_a, and the
\* structure graph as the call leaves it
AbstractParameterGraph(sg, lys) ==
    VisitLayers([sg |-> sg, ga |-> EmptyGraph], lys, Len(lys) - 1)

\* a call of _generate_abstract_parameter_graph(structure_graph, layers) on the
\* structure graph returned, lines 291-381
GenerateAbstract ==
    /\ pc = "structure_done"
    /\ LET s == AbstractParameterGraph(structure_graph, layers)
       IN  /\ G_a' = s.ga
           /\ structure_graph' = s.sg
    /\ pc' = "abstract_done"
    /\ UNCHANGED <<cfg, name_vars, other_vars, num_layers, num_edges, layer_sizes, layers, categories,
                   li, ni, total_edges, nece_vars>>

\* ------------------------------------------------------- _generate_G_d_nece1
\* line 450 as a sum over the abstract parameters only
RECURSIVE SumOpParametersOnly(_, _)
SumOpParametersOnly(G, nodes) ==
    IF nodes = <<>> THEN 0
    ELSE (IF nodes[1].kind = "Abstract"
          THEN Max2(1, InDegree(G, nodes[1]) - 1) ELSE 0)
         + SumOpParametersOnly(G, Tail(nodes))

\* _calculate_op, lines 448-450: sum(max(1, in_degree(a) - 1) for a in nodes)
RECURSIVE SumOp(_, _)
SumOp(G, nodes) ==
    IF nodes = <<>> THEN 0
    ELSE Max2(1, InDegree(G, nodes[1]) - 1) + SumOp(G, Tail(nodes))
calculate_op(G) == SumOp(G, G.nodes)

\* _get_node_dependencies as "return []": a candidate is the node alone
NoDependencies(G, node) == <<>>

\* _get_node_dependencies, lines 452-456
get_node_dependencies(G, node) == Predecessors(G, node)

\* lines 431-435: add every dependency d of node, and the edge d -> node
RECURSIVE AddDependencies(_, _, _, _)
AddDependencies(G_prime, abstract_graph, node, dependencies) ==
    IF dependencies = <<>> THEN G_prime
    ELSE LET d == dependencies[1] IN
         AddDependencies(
             AddArc(AddNode(G_prime, d, abstract_graph.attr[d]), d, node),
             abstract_graph, node, Tail(dependencies))

\* lines 421-435: G', the copy of the subgraph with node and its dependencies
Candidate(G, abstract_graph, node) ==
    AddDependencies(AddNode(Copy(G), node, abstract_graph.attr[node]),
                    abstract_graph, node,
                    get_node_dependencies(abstract_graph, node))

\* a call of _calculate_op on its own, lines 448-450
CalculateOp ==
    /\ pc = "op_call"
    /\ op_value' = calculate_op(op_graph)
    /\ pc' = "op_returned"
    /\ UNCHANGED <<structure_vars, nece_vars, op_graph, add_vars>>

\* line 441 as "op_G_prime <= n + 1": one operation over the budget is let in
FitsOffByOne(op_G_prime, budget) == op_G_prime <= budget + 1

\* line 441 as "op_G_prime == n": only a subgraph that uses the whole budget
\* is let in
FitsExactly(op_G_prime, budget) == op_G_prime = budget

\* line 441
Fits(op_G_prime, budget) == op_G_prime <= budget

\* lines 416-420 without "and node not in G_d_nece1.nodes"
IsCandidateAgain(G, abstract_graph, node, difficulty) ==
    /\ "difficulty_level" \in DOMAIN abstract_graph.attr[node]
    /\ abstract_graph.attr[node].difficulty_level = difficulty

\* lines 416-420
IsCandidate(G, abstract_graph, node, difficulty) ==
    /\ "difficulty_level" \in DOMAIN abstract_graph.attr[node]
    /\ abstract_graph.attr[node].difficulty_level = difficulty
    /\ ~HasNode(G, node)

\* lines 414-444 with line 424 as "G_prime = G_d_nece1": no copy, so what a
\* rejected candidate added stays in the subgraph
RECURSIVE ScanNodesNoCopy(_, _, _, _, _)
ScanNodesNoCopy(G, abstract_graph, nodes, difficulty, budget) ==
    IF nodes = <<>> THEN [G |-> G, updated |-> FALSE]
    ELSE IF IsCandidate(G, abstract_graph, nodes[1], difficulty)
         THEN IF Fits(calculate_op(Candidate(G, abstract_graph, nodes[1])), budget)
              THEN [G |-> Candidate(G, abstract_graph, nodes[1]), updated |-> TRUE]
              ELSE ScanNodesNoCopy(Candidate(G, abstract_graph, nodes[1]),
                                   abstract_graph, Tail(nodes), difficulty, budget)
         ELSE ScanNodesNoCopy(G, abstract_graph, Tail(nodes), difficulty, budget)

\* lines 414-444, "for node in abstract_graph" at one difficulty level: the
\* subgraph after the loop, and whether it committed a node.  The loop stops
\* at the first candidate that fits.
RECURSIVE ScanNodes(_, _, _, _, _)
ScanNodes(G, abstract_graph, nodes, difficulty, budget) ==
    IF nodes = <<>> THEN [G |-> G, updated |-> FALSE]
    ELSE IF /\ IsCandidate(G, abstract_graph, nodes[1], difficulty)
            /\ Fits(calculate_op(Candidate(G, abstract_graph, nodes[1])), budget)
         THEN [G |-> Candidate(G, abstract_graph, nodes[1]), updated |-> TRUE]
         ELSE ScanNodes(G, abstract_graph, Tail(nodes), difficulty, budget)

\* lines 406-411 as "max_difficulty = 1": the sweep looks at the parameters
\* of difficulty 1 only
MaxDifficultyOne(G, nodes) == 1

\* lines 406-411
RECURSIVE MaxDifficulty(_, _)
MaxDifficulty(G, nodes) ==
    IF nodes = <<>> THEN 0
    ELSE Max2(Get(G.attr[nodes[1]], "difficulty_level", 0),
              MaxDifficulty(G, Tail(nodes)))

\* a call of _generate_G_d_nece1(structure_graph, G_a, n, m), lines 400-402;
\* the caller raises the budget by one from call to call
CallNece ==
    /\ pc \in {"abstract_done", "nece_returned"}
    /\ Len(returned) <= MaxBudget
    /\ n' = Len(returned)
    /\ G_d_nece1' = EmptyGraph
    /\ updated' = TRUE
    /\ sweeps' = 0
    /\ pc' = "while"
    /\ UNCHANGED <<structure_vars, other_vars, max_difficulty, curr_difficulty, returned>>

\* lines 403-411: the loop goes on
WhileUpdated ==
    /\ pc = "while"
    /\ updated
    /\ G_a.nodes # <<>>
    /\ sweeps < MaxSweeps
    /\ sweeps' = sweeps + 1
    /\ updated' = FALSE
    /\ max_difficulty' = MaxDifficulty(G_a, G_a.nodes)
    /\ curr_difficulty' = max_difficulty'
    /\ pc' = "scan"
    /\ UNCHANGED <<structure_vars, other_vars, n, G_d_nece1, returned>>

\* lines 413-444: one difficulty level of the descending sweep
ScanLevel ==
    /\ pc = "scan"
    /\ curr_difficulty > 0
    /\ LET r == ScanNodes(G_d_nece1, G_a, G_a.nodes, curr_difficulty, n)
       IN  /\ G_d_nece1' = r.G
           /\ updated' = (updated \/ r.updated)
    /\ curr_difficulty' = curr_difficulty - 1
    /\ UNCHANGED <<pc, structure_vars, other_vars, n, max_difficulty, returned, sweeps>>

\* line 413: the sweep is over
EndSweep ==
    /\ pc = "scan"
    /\ curr_difficulty <= 0
    /\ pc' = "while"
    /\ UNCHANGED <<structure_vars, other_vars, nece_vars>>

\* lines 403 and 446: the loop ends and the subgraph is returned
ReturnNece ==
    /\ pc = "while"
    /\ ~updated
    /\ returned' = Append(returned, G_d_nece1)
    /\ pc' = "nece_returned"
    /\ UNCHANGED <<structure_vars, other_vars, n, G_d_nece1, updated, max_difficulty,
                   curr_difficulty, sweeps>>

\* line 406: max() of an empty list raises ValueError (G_a has no node when
\* the structure graph has one layer)
MaxRaises ==
    /\ pc = "while"
    /\ updated
    /\ G_a.nodes = <<>>
    /\ pc' = "raised"
    /\ UNCHANGED <<structure_vars, other_vars, nece_vars>>

\* ---------------------------------------- the inputs of the extraction runs
\* The extraction runs start at line 183, with the layer sizes and the number
\* of edges the growth loop (lines 155-181) leaves for min_items_per_layer = 1.
InputSizes ==
    {sizes \in UNION {[1..l -> 1..NeceNodes] : l \in 1..DeepLayers} :
        SumSeq(sizes) <= NeceNodes}

\* the largest layer
RECURSIVE MaxSeq(_)
MaxSeq(s) == IF s = <<>> THEN 0 ELSE Max2(s[1], MaxSeq(Tail(s)))

\* The growth loop (lines 155-181) reaches sizes with e edges to place from
\* [1] * num_layers unless only the first layer grew and e is the least
\* edge count: the loop then stops at once (line 169).
SizesReachable(sizes, e) ==
    ~(/\ sizes[1] > 1
      /\ \A l \in 2..Len(sizes) : sizes[l] = 1
      /\ e = Len(sizes) - 1)

InitNece ==
    /\ pc = "build"
    /\ layer_sizes \in InputSizes
    /\ num_layers = Len(layer_sizes)
    /\ num_edges \in CurrentMinEdges(layer_sizes)..CurrentMaxEdges(layer_sizes)
    /\ num_edges <= CurrentMinEdges(layer_sizes) + NeceExtra
    /\ SizesReachable(layer_sizes, num_edges)
    /\ cfg = [min_items_per_layer |-> 1, max_items_per_layer |-> MaxSeq(layer_sizes),
              num_layers |-> Some(num_layers)]
    /\ layers = <<>>
    /\ categories = <<>>
    /\ structure_graph = EmptyGraph
    /\ li = 0
    /\ ni = 0
    /\ total_edges = 0
    /\ G_a = EmptyGraph
    /\ shuffled = <<>>
    /\ item_index = 0
    /\ used_names = {}
    /\ NeceBlank
    /\ OtherBlank

NextNece ==
    \/ Build
    \/ BuildRaises
    \/ Connect
    \/ ExtraEdge
    \/ Return
    \/ GenerateAbstract
    \/ CallNece
    \/ WhileUpdated
    \/ MaxRaises
    \/ ScanLevel
    \/ EndSweep
    \/ ReturnNece

SpecNece == InitNece /\ [][NextNece]_vars

\* ------------------------------------ a wide input of the extraction runs
\* add_edge for each pair of es in turn
RECURSIVE AddEdges(_, _)
AddEdges(G, es) ==
    IF es = <<>> THEN G
    ELSE AddEdges(AddEdge(G, es[1][1], es[1][2]), Tail(es))

\* lines 201-204 for two layers: add_edge(node, parent_node), where parent[j]
\* is the index line 203 draws for node j of the second layer
ConnectEdges(lys, parent) ==
    [j \in 1..Len(lys[2]) |-> <<lys[2][j], lys[1][parent[j]]>>]

\* The run is at line 208, the loop of lines 201-204 done: two layers of
\* WideTop and WideBottom nodes, a categorization among the first
\* WideCategorizations with start_index at most WideStart, the parents of line
\* 203 among the first WideParents nodes, and WideExtra more edges for lines
\* 209-216 to draw.
InitWide ==
    /\ pc = "extra"
    /\ layer_sizes = <<WideTop, WideBottom>>
    /\ num_layers = 2
    /\ layers = MakeLayers(layer_sizes)
    /\ \E c \in 1..WideCategorizations :
       \E s \in 0..(Len(hierarchical_categories[c]) - num_layers) :
         /\ s <= WideStart
         /\ categories = SelectCategories(c, s, num_layers)
    /\ \E parent \in [1..WideBottom -> 1..WideParents] :
         structure_graph = AddEdges(AddAllNodes(EmptyGraph, layers, categories, 1),
                                    ConnectEdges(layers, parent))
    /\ total_edges = NumberOfEdges(structure_graph)
    /\ num_edges = total_edges + WideExtra
    /\ cfg = [min_items_per_layer |-> 1, max_items_per_layer |-> MaxSeq(layer_sizes),
              num_layers |-> Some(num_layers)]
    /\ li = num_layers
    /\ ni = Len(layers[num_layers])
    /\ G_a = EmptyGraph
    /\ shuffled = <<>>
    /\ item_index = 0
    /\ used_names = {}
    /\ NeceBlank
    /\ OtherBlank

InitExtraction == InitNece \/ InitWide

SpecWide == InitExtraction /\ [][NextNece]_vars

\* ------------------------------------------------ _assign_names, node by node
\* The structure graph line 219 passes to _assign_names for two layers of
\* NamesLayer nodes (min_items_per_layer = max_items_per_layer = NamesLayer and
\* num_edges = NamesLayer, every parent drawn being the first node).
NamesGraph(lys, cats) ==
    [nodes |-> lys[1] \o lys[2],
     attr |-> [v \in Range(lys[1]) \cup Range(lys[2]) |->
                  [layer |-> v[1], category |-> cats[v[1]]]],
     edges |-> [j \in 1..Len(lys[2]) |-> <<lys[2][j], lys[1][1]>>]]

InitNames ==
    /\ pc = "naming"
    /\ cfg = [min_items_per_layer |-> NamesLayer, max_items_per_layer |-> NamesLayer,
              num_layers |-> Some(2)]
    /\ num_layers = 2
    /\ num_edges = NamesLayer
    /\ layer_sizes = AllAt(NamesLayer, 2)
    /\ layers = MakeLayers(layer_sizes)
    /\ \E c \in 1..MaxCategorizations :
       \E s \in 0..(Len(hierarchical_categories[c]) - 2) :
         categories = SelectCategories(c, s, 2)
    /\ structure_graph = NamesGraph(layers, categories)
    /\ li = 1
    /\ ni = 1
    /\ total_edges = num_edges
    /\ G_a = EmptyGraph
    /\ shuffled \in [1..2 -> Shuffles]
    /\ item_index = 0
    /\ used_names = {}
    /\ NeceBlank
    /\ OtherBlank

\* lines 273-287 for one node; lines 254-271 start the next layer
AssignName ==
    /\ pc = "naming"
    /\ LET category == structure_graph.attr[layers[li][1]].category
           u == NameNode(category, shuffled[li], item_index, used_names)
       IN  /\ structure_graph' =
                  AddNode(structure_graph, layers[li][ni], [english_name |-> u.name])
           /\ IF ni < Len(layers[li])
              THEN /\ ni' = ni + 1
                   /\ li' = li
                   /\ item_index' = u.item_index
                   /\ used_names' = u.used_names
                   /\ pc' = pc
              ELSE IF li < num_layers
              THEN /\ ni' = 1
                   /\ li' = li + 1
                   /\ item_index' = 0
                   /\ used_names' = {}
                   /\ pc' = pc
              ELSE /\ ni' = ni
                   /\ li' = li
                   /\ item_index' = u.item_index
                   /\ used_names' = u.used_names
                   /\ pc' = "structure_done"
    /\ UNCHANGED <<cfg, num_layers, num_edges, layer_sizes, layers, categories,
                   total_edges, G_a, shuffled, other_vars, nece_vars>>

NextNames == AssignName

SpecNames == InitNames /\ [][NextNames]_vars

\* ------------------------------------------------ iadd: AdditionDataGenerator
\* A term is a string of decimal digits: the sequence of its digits, the most
\* significant first.
RECURSIVE Pow10(_)
Pow10(k) == IF k = 0 THEN 1 ELSE 10 * Pow10(k - 1)

\* str(num), num >= 0
RECURSIVE Str(_)
Str(num) == IF num < 10 THEN <<num>> ELSE Append(Str(num \div 10), num % 10)

\* int(term)
RECURSIVE IntOf(_)
IntOf(term) ==
    IF term = <<>> THEN 0
    ELSE 10 * IntOf(SubSeq(term, 1, Len(term) - 1)) + term[Len(term)]

\* term.zfill(width)
RECURSIVE Zfill(_, _)
Zfill(term, width) ==
    IF Len(term) >= width THEN term ELSE Zfill(<<0>> \o term, width)

\* term[::-1]
Reversed(term) == [i \in 1..Len(term) |-> term[Len(term) + 1 - i]]

\* The numbers the random module hands out after random.seed: a tape of
\* numbers, read in a circle.  Every outcome of the draws of a run is the
\* outcome of a tape.
Tapes == [1..TapeLen -> 0..(MaxDraw - 1)]

\* random.seed(self.random_seed), line 19: the state of the random module is
\* the tape the seed stands for and the number of draws made since
Seeded(random_seed, tape) == [seed |-> random_seed, tape |-> tape, count |-> 0]

\* random.randint(lo, hi): the draw the state rng yields
RandInt(rng, lo, hi) ==
    lo + (rng.tape[(rng.count % Len(rng.tape)) + 1] % (hi - lo + 1))

\* the state after a draw
Drawn(rng) == [rng EXCEPT !.count = @ + 1]

\* _generate_term, lines 196-200
generate_term(rng, num_digits) ==
    Str(RandInt(rng, Pow10(num_digits - 1), Pow10(num_digits) - 1))

\* _contains_held_out_digit as "term_reversed = term": positions counted from
\* the left
ContainsHeldOutDigitFromLeft(term, held_out_config) ==
    \E p \in 1..Len(held_out_config.positions) :
        LET pos == held_out_config.positions[p] IN
        /\ pos - 1 < Len(term)
        /\ term[pos] \in Range(held_out_config.held_out_digits)

\* _contains_held_out_digit, lines 242-249
ContainsHeldOutDigit(term, held_out_config) ==
    \E p \in 1..Len(held_out_config.positions) :
        LET pos == held_out_config.positions[p] IN
        /\ pos - 1 < Len(Reversed(term))
        /\ Reversed(term)[pos] \in Range(held_out_config.held_out_digits)

\* max(len(term) for term in terms), line 208
RECURSIVE MaxLength(_)
MaxLength(terms) ==
    IF terms = <<>> THEN 0 ELSE Max2(Len(terms[1]), MaxLength(Tail(terms)))

\* _create_example, lines 202-240 (question and text are the terms and the
\* answer joined, and are left out)
CreateExample(terms, fill_zeros, dataset_type, held_out_config) ==
    LET filled == IF fill_zeros
                  THEN [i \in 1..Len(terms) |-> Zfill(terms[i], MaxLength(terms))]
                  ELSE terms
        total == SumSeq([i \in 1..Len(filled) |-> IntOf(filled[i])])
    IN  [terms |-> filled,
         sum |-> Str(total),
         answer |-> Str(total),
         fill_zeros_applied |-> fill_zeros,
         contains_held_out |->
             IF held_out_config.given
             THEN \E i \in 1..Len(filled) :
                      ContainsHeldOutDigit(filled[i], held_out_config)
             ELSE FALSE,
         dataset_type |-> dataset_type]

\* lines 159-169 and 183-188: count terms, each of d digits, or of a length
\* drawn for each when d is None
RECURSIVE RandomTerms(_, _, _, _)
RandomTerms(count, d, dataset_config, rng) ==
    IF count = 0 THEN [terms |-> <<>>, rng |-> rng]
    ELSE LET num_digits ==
                 IF d = None
                 THEN RandInt(rng, dataset_config.min_digits, dataset_config.max_digits)
                 ELSE d[1]
             rng1 == IF d = None THEN Drawn(rng) ELSE rng
             rest == RandomTerms(count - 1, d, dataset_config, Drawn(rng1))
         IN  [terms |-> <<generate_term(rng1, num_digits)>> \o rest.terms,
              rng |-> rest.rng]

\* lines 178-192: the generation without equal distribution
RECURSIVE RandomExamples(_, _, _, _, _)
RandomExamples(count, dataset_config, dataset_type, held_out_config, rng) ==
    IF count = 0 THEN [data |-> <<>>, rng |-> rng]
    ELSE LET num_terms ==
                 RandInt(rng, dataset_config.min_terms, dataset_config.max_terms)
             t == RandomTerms(num_terms, None, dataset_config, Drawn(rng))
             rest == RandomExamples(count - 1, dataset_config, dataset_type,
                                    held_out_config, t.rng)
         IN  [data |-> <<CreateExample(t.terms, dataset_config.fill_zeros,
                                       dataset_type, held_out_config)>>
                       \o rest.data,
              rng |-> rest.rng]

\* lines 109-118: distribution[d]
Distribution(dataset_config, d) ==
    LET total_digit_options ==
            dataset_config.max_digits - dataset_config.min_digits + 1
        examples_per_digit == dataset_config.num_examples \div total_digit_options
        leftover == dataset_config.num_examples % total_digit_options
    IN  examples_per_digit
        + (IF d - dataset_config.min_digits < leftover THEN 1 ELSE 0)

\* random.sample(pool, k), and random.shuffle(pool) for k = len(pool): k
\* draws, each of which takes one of the items not yet taken
RECURSIVE Sample(_, _, _)
Sample(pool, k, rng) ==
    IF k = 0 THEN [picked |-> <<>>, rng |-> rng]
    ELSE LET j == RandInt(rng, 1, Len(pool))
             rest == Sample(SubSeq(pool, 1, j - 1) \o SubSeq(pool, j + 1, Len(pool)),
                            k - 1, Drawn(rng))
         IN  [picked |-> <<pool[j]>> \o rest.picked, rng |-> rest.rng]

\* lines 126-143: selected_numbers, and the state of the random module after
\* them.  random.shuffle of all the numbers of d digits when there are fewer
\* than count_needed, else random.sample of count_needed of them.
SelectedNumbers(d, count_needed, rng) ==
    LET possible_count == 9 * Pow10(d - 1)
        all_numbers == [i \in 1..possible_count |-> Pow10(d - 1) + i - 1]
        drawn == IF count_needed > possible_count
                 THEN Sample(all_numbers, possible_count, rng)
                 ELSE Sample(all_numbers, count_needed, rng)
    IN  [numbers |-> [i \in 1..Len(drawn.picked) |-> Str(drawn.picked[i])],
         rng |-> drawn.rng]

\* lines 153-174: one example for each selected number
RECURSIVE BaseExamples(_, _, _, _, _, _)
BaseExamples(selected_numbers, d, dataset_config, dataset_type, held_out_config, rng) ==
    IF selected_numbers = <<>> THEN [data |-> <<>>, rng |-> rng]
    ELSE LET num_terms ==
                 RandInt(rng, dataset_config.min_terms, dataset_config.max_terms)
             t == RandomTerms(num_terms - 1, Some(d), dataset_config, Drawn(rng))
             rest == BaseExamples(Tail(selected_numbers), d, dataset_config,
                                  dataset_type, held_out_config, t.rng)
         IN  [data |-> <<CreateExample(<<selected_numbers[1]>> \o t.terms,
                                       dataset_config.fill_zeros, dataset_type,
                                       held_out_config)>>
                       \o rest.data,
              rng |-> rest.rng]

\* lines 121-174: for d in digit_range, from d on
RECURSIVE PerDigit(_, _, _, _, _)
PerDigit(d, dataset_config, dataset_type, held_out_config, rng) ==
    IF d > dataset_config.max_digits THEN [data |-> <<>>, rng |-> rng]
    ELSE LET selected ==
                 SelectedNumbers(d, Distribution(dataset_config, d), rng)
             made == BaseExamples(selected.numbers, d, dataset_config,
                                  dataset_type, held_out_config, selected.rng)
             rest == PerDigit(d + 1, dataset_config, dataset_type,
                              held_out_config, made.rng)
         IN  [data |-> made.data \o rest.data, rng |-> rest.rng]

\* _generate_random, lines 99-194
generate_random(dataset_config, dataset_type, equal_digit_distribution, held_out_config, rng) ==
    IF equal_digit_distribution
    THEN PerDigit(dataset_config.min_digits, dataset_config, dataset_type,
                  held_out_config, rng)
    ELSE RandomExamples(dataset_config.num_examples, dataset_config,
                        dataset_type, held_out_config, rng)

\* itertools.combinations_with_replacement(numbers, r), in its order
RECURSIVE Combinations(_, _)
Combinations(numbers, r) ==
    IF r = 0 THEN << <<>> >>
    ELSE IF numbers = <<>> THEN <<>>
    ELSE LET with_first == Combinations(numbers, r - 1) IN
         [i \in 1..Len(with_first) |-> <<numbers[1]>> \o with_first[i]]
         \o Combinations(Tail(numbers), r)

\* lines 68-75: for num_terms in range(min_terms, max_terms + 1), from
\* num_terms on
RECURSIVE AllOfTerms(_, _, _, _, _)
AllOfTerms(num_terms, numbers, dataset_config, dataset_type, held_out_config) ==
    IF num_terms > dataset_config.max_terms THEN <<>>
    ELSE LET term_combinations == Combinations(numbers, num_terms) IN
         [i \in 1..Len(term_combinations) |->
             CreateExample(term_combinations[i], dataset_config.fill_zeros,
                           dataset_type, held_out_config)]
         \o AllOfTerms(num_terms + 1, numbers, dataset_config, dataset_type,
                       held_out_config)

\* _generate_all, lines 61-77
generate_all(dataset_config, dataset_type, held_out_config) ==
    LET min_num == Pow10(dataset_config.min_digits - 1)
        max_num == Pow10(dataset_config.max_digits) - 1
        numbers == [i \in 1..(max_num - min_num + 1) |-> Str(min_num + i - 1)]
    IN  AllOfTerms(dataset_config.min_terms, numbers, dataset_config,
                   dataset_type, held_out_config)

\* _generate_dataset, lines 49-59: the data, the state of the random module
\* after it, and whether line 57 raised ValueError
generate_dataset(dataset_config, dataset_type, equal_digit_distribution, held_out_config, rng) ==
    IF dataset_config.generation_type = "generate_all"
    THEN [data |-> generate_all(dataset_config, dataset_type, held_out_config),
          rng |-> rng, raised |-> FALSE]
    ELSE IF dataset_config.generation_type = "random"
    THEN LET made == generate_random(dataset_config, dataset_type,
                                     equal_digit_distribution, held_out_config, rng)
         IN  [data |-> made.data, rng |-> made.rng, raised |-> FALSE]
    ELSE [data |-> <<>>, rng |-> rng, raised |-> TRUE]

\* _filter_held_out_examples, lines 251-263
IsClean(example) == ~example.contains_held_out
IsHeldOut(example) == example.contains_held_out
filter_held_out_examples(examples) ==
    LET held == SelectSeq(examples, IsHeldOut) IN
    [clean |-> SelectSeq(examples, IsClean),
     moved |-> [i \in 1..Len(held) |-> [held[i] EXCEPT !.dataset_type = "test"]]]

\* line 259 writes into the example that training_data holds too
Retyped(examples) ==
    [i \in 1..Len(examples) |->
        IF examples[i].contains_held_out
        THEN [examples[i] EXCEPT !.dataset_type = "test"]
        ELSE examples[i]]

\* generate_data, lines 27-29; the ValueError of line 57 ends the call
GenerateTraining ==
    /\ pc = "add_start"
    /\ LET made == generate_dataset(config.training_config, "train",
                                    config.equal_digit_distribution,
                                    config.held_out_config, random_state)
       IN  /\ training_data' = made.data
           /\ random_state' = made.rng
           /\ pc' = IF made.raised THEN "raised" ELSE "add_filter"
    /\ UNCHANGED <<structure_vars, nece_vars, op_vars, config, training_data_clean,
                   moved_examples, test_data, datasets>>

\* lines 31-34
FilterHeldOut ==
    /\ pc = "add_filter"
    /\ config.held_out_config.given
    /\ LET filtered == filter_held_out_examples(training_data)
       IN  /\ training_data_clean' = filtered.clean
           /\ moved_examples' = filtered.moved
    /\ training_data' = Retyped(training_data)
    /\ pc' = "add_test"
    /\ UNCHANGED <<structure_vars, nece_vars, op_vars, config, random_state, test_data, datasets>>

\* lines 35-37: held_out_config is None
KeepTraining ==
    /\ pc = "add_filter"
    /\ ~config.held_out_config.given
    /\ training_data_clean' = training_data
    /\ moved_examples' = <<>>
    /\ pc' = "add_test"
    /\ UNCHANGED <<structure_vars, nece_vars, op_vars, config, random_state, training_data,
                   test_data, datasets>>

\* line 40; the ValueError of line 57 ends the call
GenerateTest ==
    /\ pc = "add_test"
    /\ LET made == generate_dataset(config.test_config, "test",
                                    config.equal_digit_distribution,
                                    config.held_out_config, random_state)
       IN  /\ test_data' = made.data
           /\ random_state' = made.rng
           /\ pc' = IF made.raised THEN "raised" ELSE "add_combine"
    /\ UNCHANGED <<structure_vars, nece_vars, op_vars, config, training_data,
                   training_data_clean, moved_examples, datasets>>

\* lines 43-47
ReturnData ==
    /\ pc = "add_combine"
    /\ datasets' = [train_data |-> training_data_clean,
                    test_data |-> test_data \o moved_examples]
    /\ pc' = "add_done"
    /\ UNCHANGED <<structure_vars, nece_vars, op_vars, config, random_state, training_data,
                   training_data_clean, moved_examples, test_data>>

\* the dataset configurations of the runs ("other" stands for every
\* generation_type that is neither "random" nor "generate_all"; num_examples
\* is read by "random" only)
DatasetConfigs ==
    {dc \in [generation_type : {"random", "generate_all", "other"},
             min_digits : 1..MaxDigits, max_digits : 1..MaxDigits,
             min_terms : {2}, max_terms : 2..MaxTerms,
             num_examples : 1..MaxExamples,
             fill_zeros : BOOLEAN] :
        /\ dc.min_digits <= dc.max_digits
        /\ dc.generation_type = "generate_all" => dc.max_digits <= MaxAllDigits
        /\ dc.generation_type # "random" => dc.num_examples = 1}

\* held_out_config: None, or the positions and the digits held out
NoHeldOut == [given |-> FALSE, positions |-> <<>>, held_out_digits |-> <<>>]
HeldOutConfigs ==
    {NoHeldOut} \cup
    [given : {TRUE},
     positions : {<<1>>, <<2>>, <<1, 2>>},
     held_out_digits : {<<0, 3>>}]

\* the test sets of the runs
TestConfigs ==
    [generation_type : {"random", "other"},
     min_digits : {1}, max_digits : {MaxDigits},
     min_terms : {2}, max_terms : {2}, num_examples : {2}, fill_zeros : {FALSE}]

InitAdd ==
    /\ pc = "add_start"
    /\ cfg = [min_items_per_layer |-> 1, max_items_per_layer |-> 1, num_layers |-> None]
    /\ Blank
    /\ NeceBlank
    /\ OpBlank
    /\ config \in [random_seed : 0..(MaxSeeds - 1),
                   equal_digit_distribution : BOOLEAN,
                   training_config : DatasetConfigs,
                   test_config : TestConfigs,
                   held_out_config : HeldOutConfigs]
    /\ random_state \in {Seeded(config.random_seed, tape) : tape \in Tapes}
    /\ training_data = <<>>
    /\ training_data_clean = <<>>
    /\ moved_examples = <<>>
    /\ test_data = <<>>
    /\ datasets = [train_data |-> <<>>, test_data |-> <<>>]

NextAdd ==
    \/ GenerateTraining
    \/ FilterHeldOut
    \/ KeepTraining
    \/ GenerateTest
    \/ ReturnData

SpecAdd == InitAdd /\ [][NextAdd]_vars

\* a digit of held_out_digits stands at a position of positions, counted from
\* the right with position 1 the units, in a term of the example
HasHeldOutDigit(example, held_out_config) ==
    \E t \in 1..Len(example.terms) :
        \E p \in 1..Len(held_out_config.positions) :
            LET term == example.terms[t]
                pos == held_out_config.positions[p]
            IN  /\ pos <= Len(term)
                /\ term[Len(term) + 1 - pos] \in Range(held_out_config.held_out_digits)

\* C16: with a held-out configuration, no example of the returned train_data
\* has a held-out digit at a held-out position of a term; every generated
\* training example that has one is in test_data with dataset_type "test";
\* and every generated training example is in exactly one of the two lists.
C16_HeldOutLeavesTraining ==
    (pc = "add_done" /\ config.held_out_config.given) =>
        /\ \A i \in 1..Len(datasets.train_data) :
               ~HasHeldOutDigit(datasets.train_data[i], config.held_out_config)
        /\ \A i \in 1..Len(training_data) :
               IF HasHeldOutDigit(training_data[i], config.held_out_config)
               THEN /\ training_data[i].dataset_type = "test"
                    /\ training_data[i] \in Range(datasets.test_data)
                    /\ training_data[i] \notin Range(datasets.train_data)
               ELSE /\ training_data[i] \in Range(datasets.train_data)
                    /\ training_data[i] \notin Range(datasets.test_data)
        /\ Len(datasets.train_data) + Len(datasets.test_data)
               = Len(training_data) + Len(test_data)

\* a run that kept some training examples and moved others
C16_SomeMovedSomeKept ==
    /\ pc = "add_done"
    /\ config.held_out_config.given
    /\ datasets.train_data # <<>>
    /\ moved_examples # <<>>
    /\ \E i \in 1..Len(moved_examples) :
           \E t \in 1..Len(moved_examples[i].terms) :
               Len(moved_examples[i].terms[t]) = 2

\* C17: with generation_type "random" the training set generated has exactly
\* num_examples examples.
C17_RandomReturnsNumExamples ==
    (pc = "add_filter" /\ config.training_config.generation_type = "random") =>
        Len(training_data) = config.training_config.num_examples

\* ------------------------------------------------ _calculate_op on its own
\* The graphs handed to _calculate_op: up to MaxOpNodes nodes, raw structure
\* nodes and abstract parameters in turn, and any set of edges between them.
OpNode(i) ==
    IF i % 2 = 1 THEN RawKey(NodeId(2, (i + 1) \div 2))
    ELSE AbstractKey(NodeId(1, i \div 2), 1,
                     Possessive(Fmt("District", i \div 2), "Supermarket"))

RECURSIVE OpArcs(_, _, _, _)
OpArcs(k, i, j, chosen) ==
    IF i > k THEN <<>>
    ELSE IF j > k THEN OpArcs(k, i + 1, 1, chosen)
    ELSE (IF <<i, j>> \in chosen THEN << <<OpNode(i), OpNode(j)>> >> ELSE <<>>)
         \o OpArcs(k, i, j + 1, chosen)

OpGraph(k, chosen) ==
    [nodes |-> [i \in 1..k |-> OpNode(i)],
     attr |-> [v \in {OpNode(i) : i \in 1..k} |-> <<>>],
     edges |-> OpArcs(k, 1, 1, chosen)]

OpGraphs ==
    {OpGraph(k, chosen) :
        chosen \in SUBSET {p \in (1..MaxOpNodes) \X (1..MaxOpNodes) : p[1] # p[2]},
        k \in 0..MaxOpNodes}

InitOp ==
    /\ pc = "op_call"
    /\ cfg = [min_items_per_layer |-> 1, max_items_per_layer |-> 1, num_layers |-> None]
    /\ Blank
    /\ NeceBlank
    /\ op_graph \in OpGraphs
    /\ op_value = None
    /\ AddBlank

NextOp == CalculateOp

SpecOp == InitOp /\ [][NextOp]_vars

Next ==
    \/ Begin
    \/ GrowForced
    \/ StopExact
    \/ GrowRandom
    \/ StopRandom
    \/ StopFull
    \/ Build
    \/ BuildRaises
    \/ Connect
    \/ ExtraEdge
    \/ Return
    \/ GenerateAbstract

Spec == Init /\ [][Next]_vars

\* ------------------------------------------------------------------ claims
\* op(G) as the claims state it: the sum over the nodes of G of
\* max(1, in-degree within G - 1)
RECURSIVE CostOver(_, _)
CostOver(G, S) ==
    IF S = {} THEN 0
    ELSE LET v == CHOOSE x \in S : TRUE IN
         Max2(1, Cardinality({i \in DOMAIN G.edges : G.edges[i][2] = v}) - 1)
             + CostOver(G, S \ {v})
OpCost(G) == CostOver(G, Range(G.nodes))

\* C1: the subgraph every call of _generate_G_d_nece1 returns costs at most
\* the budget n of the call, and so does every subgraph the search commits
\* on the way.
C1_CostWithinBudget ==
    /\ OpCost(G_d_nece1) <= n
    /\ \A i \in DOMAIN returned : OpCost(returned[i]) <= i - 1

\* a call returned a subgraph that is not empty and uses its whole budget
C1_BudgetUsed ==
    \E i \in DOMAIN returned :
        /\ returned[i].nodes # <<>>
        /\ returned[i].edges # <<>>
        /\ OpCost(returned[i]) = i - 1

\* the subgraphs returned for the budgets 0, 1, ... never lose nodes
SizesNeverShrink ==
    \A i, j \in DOMAIN returned :
        i <= j => Len(returned[i].nodes) <= Len(returned[j].nodes)

\* C2 as stated: for one dependency graph and budgets n1 <= n2, the subgraph
\* returned for n2 has at least as many nodes as the one returned for n1.
C2_BudgetMonotone == SizesNeverShrink

\* C2 amended: the same, for a dependency graph in which every node has at
\* most three direct predecessors.
C2_BudgetMonotoneUpToThree ==
    (\A v \in Range(G_a.nodes) : InDegree(G_a, v) <= 3) => SizesNeverShrink

\* every budget was run on a dependency graph with a node of three direct
\* predecessors and none of more, and the subgraph grew with the budget
C2_GrewUpToThree ==
    /\ Len(returned) = MaxBudget + 1
    /\ \A v \in Range(G_a.nodes) : InDegree(G_a, v) <= 3
    /\ \E v \in Range(G_a.nodes) :
         /\ InDegree(G_a, v) = 3
         /\ HasNode(returned[Len(returned)], v)
    /\ \E i \in 1..(Len(returned) - 1) :
         /\ returned[i].nodes # <<>>
         /\ Len(returned[i].nodes) < Len(returned[i + 1].nodes)

StructureReturned == pc \in {"structure_done", "abstract_done"}

\* C3: in every structure graph _generate_structure_graph returns, every
\* node of a layer i > 1 has a neighbour in layer i - 1.
C3_NoOrphan ==
    StructureReturned =>
        \A l \in 2..Len(layers) : \A v \in Range(layers[l]) :
            \E u \in Range(Neighbors(structure_graph, v)) :
                /\ u \in Range(layers[l - 1])
                /\ structure_graph.attr[u].layer = l - 1

\* a graph of three layers of two nodes was returned
C3_ThreeLayersReturned ==
    /\ pc = "structure_done"
    /\ layer_sizes = <<2, 2, 2>>
    /\ Neighbors(structure_graph, NodeId(3, 1)) # Neighbors(structure_graph, NodeId(3, 2))

\* C4: every edge of the structure graph joins a node of layers[k] to a node
\* of layers[k + 1], so the layers of its ends differ by exactly 1: after the
\* connectivity step, after every extra edge and in the graph returned.
C4_AdjacentLayers ==
    \A e \in Range(structure_graph.edges) :
        LET la == structure_graph.attr[e[1]].layer
            lb == structure_graph.attr[e[2]].layer
        IN  /\ (la - lb = 1 \/ lb - la = 1)
            /\ \E k \in 1..(Len(layers) - 1) :
                 \/ e[1] \in Range(layers[k]) /\ e[2] \in Range(layers[k + 1])
                 \/ e[2] \in Range(layers[k]) /\ e[1] \in Range(layers[k + 1])

\* a graph of three layers was returned with edges the extra-edge step added
C4_ExtraEdgesReturned ==
    /\ pc = "structure_done"
    /\ num_layers = 3
    /\ NumberOfEdges(structure_graph) > CurrentMinEdges(layer_sizes)

\* C5: for 1 <= min_items_per_layer <= max_items_per_layer and L layers, the
\* number of edges of the structure graph returned lies in
\* [(L - 1) * min_items_per_layer, (L - 1) * max_items_per_layer^2].
C5_EdgeCountInBounds ==
    (StructureReturned /\ ValidConfig(cfg)) =>
        /\ (num_layers - 1) * cfg.min_items_per_layer
               <= NumberOfEdges(structure_graph)
        /\ NumberOfEdges(structure_graph)
               <= (num_layers - 1) * cfg.max_items_per_layer * cfg.max_items_per_layer

\* a graph of three layers was returned with as many edges as the bound allows
C5_UpperBoundMet ==
    /\ pc = "structure_done"
    /\ num_layers = 3
    /\ cfg.max_items_per_layer = 2
    /\ cfg.min_items_per_layer = 1
    /\ NumberOfEdges(structure_graph) = 8

\* the nodes of layer l that have their english_name
Named(l) ==
    {j \in DOMAIN layers[l] : "english_name" \in DOMAIN structure_graph.attr[layers[l][j]]}

\* C6: no two nodes of a layer carry the same english_name, whatever the size
\* of the layer: also when the pool of the layer's category is smaller than
\* the layer, and when the category has no catalog entry.
C6_UniqueNames ==
    \A l \in DOMAIN layers :
        Cardinality({structure_graph.attr[layers[l][j]].english_name : j \in Named(l)})
            = Cardinality(Named(l))

\* a layer of a category without catalog entry, larger than its pool, is
\* named: its last node carries a synthesized name
C6_SynthesizedName ==
    /\ pc = "structure_done"
    /\ categories[1] = "Zoo"
    /\ Len(layers[1]) > PoolSize
    /\ Named(1) = DOMAIN layers[1]
    /\ structure_graph.attr[layers[1][Len(layers[1])]].english_name
           = Fmt("Zoo", Len(layers[1]))

\* the nodes left when the nodes without a predecessor among them are taken
\* away again and again: the nodes on or behind a directed cycle
RECURSIVE Peel(_, _)
Peel(S, es) ==
    LET free == {v \in S : ~\E i \in DOMAIN es : es[i][2] = v /\ es[i][1] \in S}
    IN  IF free = {} THEN S ELSE Peel(S \ free, es)

\* C7: the dependency graph _generate_abstract_parameter_graph returns has
\* no directed cycle, for structure graphs of 2 to 4 layers.
C7_Acyclic ==
    pc = "abstract_done" => Peel(Range(G_a.nodes), G_a.edges) = {}

\* the dependency graph of a structure graph of four layers, with a
\* parameter that depends on a parameter, was returned
C7_FourLayersReturned ==
    /\ pc = "abstract_done"
    /\ num_layers = 4
    /\ \E e \in Range(G_a.edges) :
         /\ "difficulty_level" \in DOMAIN G_a.attr[e[1]]
         /\ "difficulty_level" \in DOMAIN G_a.attr[e[2]]

IsAbstractParameter(G, v) == "difficulty_level" \in DOMAIN G.attr[v]

\* the largest difficulty_level among the direct predecessors of v that are
\* abstract parameters, 0 when there is none
MaxPredecessorDifficulty(G, v) ==
    LET ds == {G.attr[u].difficulty_level :
                  u \in {w \in Range(Predecessors(G, v)) : IsAbstractParameter(G, w)}}
                  \cup {0}
    IN  CHOOSE d \in ds : \A x \in ds : x <= d

\* C8: in the dependency graph returned, the difficulty_level of every
\* abstract parameter is 1 + the largest difficulty_level among its direct
\* predecessors that are abstract parameters (0 when all are raw nodes).
C8_DifficultyFromPredecessors ==
    pc = "abstract_done" =>
        \A v \in Range(G_a.nodes) :
            IsAbstractParameter(G_a, v) =>
                G_a.attr[v].difficulty_level = 1 + MaxPredecessorDifficulty(G_a, v)

\* a parameter of difficulty 2 with two direct predecessors was built
C8_ComposedParameter ==
    /\ pc = "abstract_done"
    /\ \E v \in Range(G_a.nodes) :
         /\ IsAbstractParameter(G_a, v)
         /\ G_a.attr[v].difficulty_level = 2
         /\ InDegree(G_a, v) = 2

\* the scenario of C10: two layers of exactly two items each
TwoByTwo ==
    /\ cfg.min_items_per_layer = 2
    /\ cfg.max_items_per_layer = 2
    /\ num_layers = 2

\* the abstract parameters of structure node u
ParametersOf(G, u) ==
    {v \in Range(G.nodes) : IsAbstractParameter(G, v) /\ G.attr[v].node = u}

\* C10: for num_layers = 2 and min_items_per_layer = max_items_per_layer = 2
\* each layer has exactly 2 nodes, the graph has 2 to 4 edges, and the
\* dependency graph has exactly one abstract parameter for each layer-1 node
\* with a layer-2 neighbour, none for a layer-1 node without one, and every
\* abstract parameter has difficulty_level 1.
C10_TwoByTwo ==
    (TwoByTwo /\ StructureReturned) =>
        /\ Len(layers) = 2
        /\ Len(layers[1]) = 2
        /\ Len(layers[2]) = 2
        /\ Len(structure_graph.nodes) = 4
        /\ NumberOfEdges(structure_graph) \in 2..4
        /\ pc = "abstract_done" =>
             /\ \A u \in Range(layers[1]) :
                  Cardinality(ParametersOf(G_a, u)) =
                      IF \E w \in Range(layers[2]) : HasEdge(structure_graph, u, w)
                      THEN 1 ELSE 0
             /\ \A u \in Range(layers[2]) : ParametersOf(G_a, u) = {}
             /\ \A v \in Range(G_a.nodes) :
                  IsAbstractParameter(G_a, v) => G_a.attr[v].difficulty_level = 1

\* the scenario ran to its dependency graph with a layer-1 node that has no
\* layer-2 neighbour
C10_OneParameterOnly ==
    /\ TwoByTwo
    /\ pc = "abstract_done"
    /\ \E u \in Range(layers[1]) :
         /\ ~\E w \in Range(layers[2]) : HasEdge(structure_graph, u, w)
         /\ ParametersOf(G_a, u) = {}
    /\ \E u \in Range(layers[1]) : Cardinality(ParametersOf(G_a, u)) = 1

\* A graph of two nodes and one edge: an abstract parameter whose only
\* predecessor is a raw structure node.
TwoNodeChain(G) ==
    /\ Len(G.nodes) = 2
    /\ \E raw, param \in Range(G.nodes) :
         /\ raw.kind = "Node"
         /\ param.kind = "Abstract"
         /\ G.edges = << <<raw, param>> >>

\* C11 as stated: _calculate_op of a two-node chain (one abstract parameter
\* whose only predecessor is one raw node) returns 1.
C11_ChainCostsOne ==
    (pc = "op_returned" /\ TwoNodeChain(op_graph)) => op_value = 1

\* C11, amended: _calculate_op of a two-node chain returns 2, one for the raw
\* node (in-degree 0) and one for the parameter (in-degree 1).
C11_ChainCostsTwo ==
    (pc = "op_returned" /\ TwoNodeChain(op_graph)) => op_value = 2

C11_ChainMeasured == pc = "op_returned" /\ TwoNodeChain(op_graph)

\* the abstract parameters of a graph
ParameterCount(G) ==
    Cardinality({i \in 1..Len(G.nodes) : G.nodes[i].kind = "Abstract"})

\* a step of a call keeps both graphs, and changes the subgraph only into the
\* candidate of a node that fits the budget
KeepsGraphs ==
    pc \in {"abstract_done", "nece_returned", "while", "scan"} =>
        /\ G_a' = G_a
        /\ structure_graph' = structure_graph
        /\ (pc \in {"while", "scan"} /\ G_d_nece1' # G_d_nece1) =>
               \E i \in 1..Len(G_a.nodes) :
                   /\ IsCandidate(G_d_nece1, G_a, G_a.nodes[i], curr_difficulty)
                   /\ calculate_op(Candidate(G_d_nece1, G_a, G_a.nodes[i])) <= n
                   /\ G_d_nece1' = Candidate(G_d_nece1, G_a, G_a.nodes[i])

\* C12: a call of _generate_G_d_nece1 changes neither the dependency graph nor
\* the structure graph it is given, and the subgraph changes only by becoming
\* the candidate of a node that fits the budget: a rejected candidate leaves
\* it as it was.
C12_ExtractionKeepsGraphs == [][KeepsGraphs]_vars

\* a call has returned a subgraph that holds some parameters and has left
\* others out: candidates were rejected
C12_RejectedSome ==
    /\ pc = "nece_returned"
    /\ ParameterCount(G_d_nece1) > 0
    /\ ParameterCount(G_d_nece1) < ParameterCount(G_a)

\* C13 as stated: for a configuration outside 1 <= min <= max,
\* _generate_structure_graph never returns a structure graph.
C13_InvalidNeverReturns ==
    ~ValidConfig(cfg) => pc # "structure_done"

\* C14: a call of _generate_G_d_nece1 on a dependency graph with an abstract
\* parameter enters its loop at most (number of nodes of the graph + 1) times:
\* every repetition that sets updated has added a node to the subgraph, and
\* the repetition that adds none is the last.
C14_SweepsBounded ==
    /\ (pc \in {"while", "scan", "nece_returned"} /\ ParameterCount(G_a) > 0)
           => sweeps <= Len(G_a.nodes) + 1
    /\ (pc = "while" /\ updated) => Len(G_d_nece1.nodes) >= sweeps
    /\ (pc = "while" /\ ~updated) => sweeps <= Len(G_d_nece1.nodes) + 1

\* a call has returned after more repetitions than the last, empty one
C14_SeveralSweeps ==
    /\ pc = "nece_returned"
    /\ sweeps >= 3
    /\ ParameterCount(G_a) > 0

\* the runs of _generate_structure_graph in which a loop that can go on or
\* end does so, and the extra-edge loop does not draw connected pairs for ever
NextFair ==
    \/ Begin
    \/ GrowForced
    \/ StopExact
    \/ GrowRandom
    \/ StopRandom
    \/ StopFull
    \/ Build
    \/ BuildRaises
    \/ Connect
    \/ ExtraEdge
    \/ Return

SpecFair ==
    /\ Init
    /\ [][NextFair]_vars
    /\ WF_vars(GrowForced)
    /\ WF_vars(StopExact)
    /\ WF_vars(StopRandom)
    /\ WF_vars(StopFull)
    /\ WF_vars(Connect)
    /\ WF_vars(ExtraEdge)

\* C15: for 1 <= min <= max the loops of _generate_structure_graph end: the
\* layer-growth loop reaches the construction of the graph, and the
\* connectivity and extra-edge loops reach total_edges >= num_edges, where
\* the graph is named and returned. No such call raises, but for the
\* ValueError of line 235 when num_layers is above the length of a
\* categorization.
C15_StructureTerminates ==
    /\ (pc = "grow" /\ ValidConfig(cfg)) ~> pc = "build"
    /\ (pc = "connect" /\ ValidConfig(cfg))
           ~> (pc = "extra" /\ ~(total_edges < num_edges))
    /\ []((pc = "raised" /\ ValidConfig(cfg))
             => \E c \in 1..MaxCategorizations :
                    num_layers > Len(hierarchical_categories[c]))

\* a call has returned after the extra-edge loop added edges
C15_ReturnedAfterExtra ==
    /\ pc = "structure_done"
    /\ ValidConfig(cfg)
    /\ NumberOfEdges(structure_graph) > CurrentMinEdges(layer_sizes)

\* c is a direct child of v: a neighbour of v in the structure graph, one
\* layer below
IsDirectChild(v, c) ==
    /\ HasEdge(structure_graph, v, c)
    /\ structure_graph.attr[c].layer = structure_graph.attr[v].layer + 1

\* C18: for every structure node v, every direct child c of v and every
\* abstract parameter p owned by c, whatever its difficulty, the dependency
\* graph has an abstract parameter owned by v of difficulty_level
\* 1 + difficulty_level(p) with an edge from p to it.
C18_ComposedFromEveryParameter ==
    pc = "abstract_done" =>
        \A v \in Range(structure_graph.nodes) :
            \A c \in Range(structure_graph.nodes) :
                IsDirectChild(v, c) =>
                    \A p \in ParametersOf(G_a, c) :
                        \E q \in ParametersOf(G_a, v) :
                            /\ G_a.attr[q].difficulty_level
                                   = 1 + G_a.attr[p].difficulty_level
                            /\ HasArc(G_a, p, q)

\* C19: the layers attribute of every abstract parameter is the pair (layer
\* of its owner, target layer) with target layer - owner layer =
\* difficulty_level.
C19_LayersSpanDifficulty ==
    pc = "abstract_done" =>
        \A q \in Range(G_a.nodes) :
            IsAbstractParameter(G_a, q) =>
                /\ G_a.attr[q].layers[1]
                       = structure_graph.attr[G_a.attr[q].node].layer
                /\ G_a.attr[q].layers[2] - G_a.attr[q].layers[1]
                       = G_a.attr[q].difficulty_level

\* an abstract parameter of difficulty above d that the subgraph does not
\* hold and that could be added within the budget
HigherFits(d) ==
    \E w \in Range(G_a.nodes) :
        /\ IsAbstractParameter(G_a, w)
        /\ G_a.attr[w].difficulty_level > d
        /\ ~HasNode(G_d_nece1, w)
        /\ Fits(calculate_op(Candidate(G_d_nece1, G_a, w)), n)

\* a step of the scan that commits a node of difficulty curr_difficulty does
\* so when no node of a higher difficulty could be added
CommitsHighestFirst ==
    (pc = "scan" /\ G_d_nece1' # G_d_nece1) => ~HigherFits(curr_difficulty)

\* C20: a node of difficulty d is committed only when no not-yet-included
\* node of difficulty greater than d could be added within the budget at
\* that moment.
C20_RestartsFromHighest == [][CommitsHighestFirst]_vars

\* every direct predecessor of v in the dependency graph, and the edge from
\* it, is in the subgraph
HasAllPredecessors(v) ==
    \A u \in Range(Predecessors(G_a, v)) :
        HasNode(G_d_nece1, u) /\ HasArc(G_d_nece1, u, v)

\* C21: on return every abstract parameter of the subgraph has all its
\* direct predecessors of the dependency graph, and the edges from them, in
\* the subgraph, or adding the missing ones would raise op above n.
C21_DependencyClosure ==
    pc = "nece_returned" =>
        \A v \in Range(G_d_nece1.nodes) :
            IsAbstractParameter(G_a, v) =>
                \/ HasAllPredecessors(v)
                \/ ~Fits(calculate_op(Candidate(G_d_nece1, G_a, v)), n)

\* C22: the subgraph returned is an induced subgraph of the dependency
\* graph: its nodes and edges are nodes and edges of the dependency graph,
\* and every edge of the dependency graph between two of its nodes is one of
\* its edges.
C22_InducedSubgraph ==
    pc = "nece_returned" =>
        /\ Range(G_d_nece1.nodes) \subseteq Range(G_a.nodes)
        /\ Range(G_d_nece1.edges) \subseteq Range(G_a.edges)
        /\ \A e \in Range(G_a.edges) :
               (HasNode(G_d_nece1, e[1]) /\ HasNode(G_d_nece1, e[2]))
                   => HasArc(G_d_nece1, e[1], e[2])

\* C23: when _generate_G_d_nece1 returns, no abstract parameter outside the
\* returned subgraph can be added together with its direct predecessors
\* without the operation cost exceeding n.
C23_FixedPoint ==
    pc = "nece_returned" =>
        \A w \in Range(G_a.nodes) :
            (IsAbstractParameter(G_a, w) /\ ~HasNode(G_d_nece1, w)) =>
                ~Fits(calculate_op(Candidate(G_d_nece1, G_a, w)), n)

\* a call returned a subgraph with parameters in it and a parameter of the
\* highest difficulty left out
C23_BudgetBinds ==
    /\ pc = "nece_returned"
    /\ ParameterCount(G_d_nece1) > 0
    /\ \E w \in Range(G_a.nodes) :
           /\ IsAbstractParameter(G_a, w)
           /\ G_a.attr[w].difficulty_level = 2
           /\ ~HasNode(G_d_nece1, w)

\* the cost of abstract parameter w with its direct predecessors, as the
\* first candidate of a call: max(1, k - 1) for w and 1 for each of its k
\* direct predecessors
AloneCost(w) == Max2(1, InDegree(G_a, w) - 1) + InDegree(G_a, w)

\* C24 as stated: for a dependency graph with an abstract parameter and a
\* budget n >= 1 the subgraph returned has at least one node.
C24_EmptyOnlyBelowOne ==
    (pc = "nece_returned" /\ ParameterCount(G_a) > 0 /\ n >= 1) =>
        G_d_nece1.nodes # <<>>

\* C24, amended: for a dependency graph with an abstract parameter the
\* subgraph returned is empty exactly when every abstract parameter costs
\* more than n with its direct predecessors; that cost is at least 2, so the
\* subgraph is empty for n <= 1, and a subgraph that is not empty has at
\* least two nodes.
C24_EmptyBelowLeastCost ==
    (pc = "nece_returned" /\ ParameterCount(G_a) > 0) =>
        /\ G_d_nece1.nodes = <<>>
               <=> \A w \in Range(G_a.nodes) :
                       IsAbstractParameter(G_a, w) => AloneCost(w) > n
        /\ n <= 1 => G_d_nece1.nodes = <<>>
        /\ G_d_nece1.nodes # <<>> => Len(G_d_nece1.nodes) >= 2

\* a call with budget 2 returned the empty subgraph, and a call with budget
\* 3 on the same dependency graph returned a subgraph with nodes
C24_EmptyAtTwo ==
    /\ pc = "nece_returned"
    /\ ParameterCount(G_a) > 0
    /\ n = 3
    /\ returned[3].nodes = <<>>
    /\ G_d_nece1.nodes # <<>>

\* a pair of nodes of adjacent layers that no edge joins yet
FreePairLeft ==
    \E i \in 1..(num_layers - 1) :
        \E a \in Range(layers[i]) : \E b \in Range(layers[i + 1]) :
            ~HasEdge(structure_graph, a, b)

\* C25: for 1 <= min <= max, when the layer-growth loop has exited
\* sum(layer_sizes[1:]) <= num_edges <= sum of the products of consecutive
\* layer sizes; the connectivity step never makes more than num_edges edges;
\* the extra-edge step has a free pair left while it is short of num_edges;
\* and the graph returned has exactly num_edges edges.
C25_ExactEdgeCount ==
    ValidConfig(cfg) =>
        /\ (pc \in {"build", "connect", "extra"} \/ StructureReturned) =>
               /\ CurrentMinEdges(layer_sizes) <= num_edges
               /\ num_edges <= CurrentMaxEdges(layer_sizes)
        /\ pc \in {"connect", "extra"} =>
               NumberOfEdges(structure_graph) <= num_edges
        /\ (pc = "extra" /\ total_edges < num_edges) => FreePairLeft
        /\ pc = "extra" => total_edges = NumberOfEdges(structure_graph)
        /\ StructureReturned => NumberOfEdges(structure_graph) = num_edges

\* a graph was returned after the growth loop stopped by chance, with
\* num_edges strictly between the two sums and a layer below its maximum
C25_ReturnedWithSlack ==
    /\ pc = "structure_done"
    /\ ValidConfig(cfg)
    /\ layer_sizes # AllAt(cfg.max_items_per_layer, num_layers)
    /\ CurrentMinEdges(layer_sizes) < num_edges
    /\ num_edges < CurrentMaxEdges(layer_sizes)
    /\ NumberOfEdges(structure_graph) = num_edges

\* a call of _generate_abstract_parameter_graph leaves the structure graph
\* as it was: the same nodes, edges and attributes of every node
AbstractKeepsStructure ==
    (pc = "structure_done" /\ pc' = "abstract_done") =>
        structure_graph' = structure_graph

\* C26: _generate_abstract_parameter_graph leaves the structure graph
\* unchanged (same nodes, edges and per-node attributes before and after the
\* call).
C26_StructureImmutable == [][AbstractKeepsStructure]_vars

====
